---- MODULE Spec2Model ----
(***************************************************************************)
(* Model of gnocchi/chef.py: the Chef, which runs the operations that need *)
(* several drivers at once (coordinator, incoming, indexer, storage):      *)
(* expunge_metrics, refresh_metric and process_new_measures.  Several      *)
(* workers run these operations concurrently; they share the indexer, the  *)
(* incoming (ingestion) driver, the storage driver and the coordinator's   *)
(* locks.  Every driver call is one step; a driver call may fail.          *)
(*                                                                         *)
(* A worker has one job, as in a deployment: the janitor calls             *)
(* expunge_metrics, an API worker calls refresh_metric, a processor calls  *)
(* process_new_measures.  Workers being interchangeable, a deployment is   *)
(* given as one order of each pair of jobs.                                *)
(***************************************************************************)
EXTENDS Integers, Sequences, FiniteSets, TLC

\* ---------------------------------------------------------------- bounds
\* driver calls that may fail with an unclassified error in one call of an
\* operation
MaxFaults == 1
\* measures queued plus series stored, over all metrics
MaxData == 1

\* ------------------------------------------------------------ population
Workers == {"w1", "w2"}
\* A and B share a sack, C is in another one
MetricIds == {"A", "B", "C"}
NoWorker == "nobody"
NoMetric == "-"

VARIABLES
    status,    \* indexer: metric id -> "active" | "delete" | "gone"
    queue,     \* incoming: metric id -> number of unprocessed measures
    series,    \* storage: metric id -> TRUE when series data is stored
    lock,      \* coordinator: lock name -> holder, or NoWorker
    role,      \* worker -> its job: "janitor" | "api" | "processor"
    wk         \* worker -> its position and local variables (see IdleWorker)

vars == <<status, queue, series, lock, role, wk>>

\* ----------------------------------------------------------- collaborators
\* incoming.sack_for_metric: a pure, stable map from metric id to sack
sack_for_metric(m) == IF m = "C" THEN 2 ELSE 1

Sacks == {sack_for_metric(m) : m \in MetricIds}

\* lock name: the digest of 'gnocchi-sack-%s-lock'; sha1 is taken to be
\* collision-free, so the name is the template with the sack filled in
get_sack_lock(sack) == <<"gnocchi-sack", sack, "lock">>

LockNames == {get_sack_lock(s) : s \in Sacks}

\* the status filter left out: every metric that has an index record
ListUnfiltered == {m \in MetricIds : status[m] # "gone"}

\* index.list_metrics(status='delete')
ListDeleted == {m \in MetricIds : status[m] = "delete"}

\* the ids resolved without the status filter
ListPresentIn(ids) == {m \in ids : status[m] # "gone"}

\* index.list_metrics(attribute_filter={"in": {"id": ids}}): the default
\* status filter keeps the active metrics only
ListActiveIn(ids) == {m \in ids : status[m] = "active"}

\* ----------------------------------------------------------------- helpers
\* all orders in which the indexer may return a set of metrics
RECURSIVE Orders(_)
Orders(S) ==
    IF S = {} THEN {<<>>}
    ELSE UNION {{<<x>> \o t : t \in Orders(S \ {x})} : x \in S}

\* insert pair p into a list sorted by sack, after every pair whose sack is
\* not greater (sorted() is stable)
RECURSIVE InsertBySack(_, _)
InsertBySack(p, sorted) ==
    IF sorted = <<>> THEN <<p>>
    ELSE IF Head(sorted)[2] <= p[2]
         THEN <<Head(sorted)>> \o InsertBySack(p, Tail(sorted))
         ELSE <<p>> \o sorted

\* the pairs in the indexer's order, not sorted
NotSorted(pairs) == pairs

\* sorted(..., key=ITEMGETTER_1): by sack, the indexer's order kept within
\* a sack
RECURSIVE SortBySack(_)
SortBySack(pairs) ==
    IF pairs = <<>> THEN <<>>
    ELSE InsertBySack(pairs[Len(pairs)], SortBySack(SubSeq(pairs, 1, Len(pairs) - 1)))

\* sorted(((m, sack_for_metric(m.id)) for m in ...), key=ITEMGETTER_1)
metrics_to_expunge(order) ==
    SortBySack([i \in 1..Len(order) |-> <<order[i], sack_for_metric(order[i])>>])

\* itertools.groupby: leaving a group skips the pairs left in it
RECURSIVE SkipGroup(_, _)
SkipGroup(pairs, sack) ==
    IF pairs # <<>> /\ Head(pairs)[2] = sack THEN SkipGroup(Tail(pairs), sack)
    ELSE pairs

RECURSIVE Sum(_, _)
Sum(f, S) ==
    IF S = {} THEN 0
    ELSE LET x == CHOOSE y \in S : TRUE IN f[x] + Sum(f, S \ {x})

\* measures queued plus series stored
Data == Sum(queue, MetricIds) + Cardinality({m \in MetricIds : series[m]})

\* the outcomes of a driver call that are no unclassified error
Benign == {"ok", "busy", "NoSuchMetric"}

\* the driver calls of log l that ended in an unclassified error
Faults(l) == {i \in 1..Len(l) : l[i][3] \notin Benign}

\* a driver call of worker w may fail while its call is below the bound
CanFail(w) == Cardinality(Faults(wk[w].log)) < MaxFaults

\* ------------------------------------------------------------------- init
\* a worker outside any call.  When idle after a call, op, sync, claim and
\* result are those of the call that ended last, and log holds its last
\* driver call.
IdleWorker ==
    [pc |-> "idle",       \* position in the code
     op |-> "none",       \* the operation called: expunge, process, refresh
     sync |-> FALSE,      \* the sync argument in effect
     metric |-> NoMetric, \* refresh_metric's metric
     todo |-> <<>>,       \* expunge: sorted (metric, sack) pairs not yet handled
     toFold |-> {},       \* process: metrics_to_process, then metrics left to fold
     batch |-> <<>>,      \* process: metrics_and_measures of the open claim
     claim |-> "none",    \* the batch claim scope: none, open, committed, failed
     result |-> <<"none">>, \* <<"ok">> or the error raised, once returned
     log |-> <<>>]        \* the driver calls made, in order: <<call, target, outcome>>

\* the drivers and the workers before any call
Start ==
    /\ status = [m \in MetricIds |-> "active"]
    /\ queue = [m \in MetricIds |-> 0]
    /\ series = [m \in MetricIds |-> FALSE]
    /\ lock = [n \in LockNames |-> NoWorker]
    /\ wk = [w \in Workers |-> IdleWorker]

Jobs(j1, j2) == [w \in Workers |-> IF w = "w1" THEN j1 ELSE j2]

\* janitors and API workers: every pair of operations that take sack locks
Init ==
    /\ Start
    /\ role \in {Jobs("janitor", "janitor"), Jobs("janitor", "api"), Jobs("api", "api")}

\* a janitor and a processor
InitProcess ==
    /\ Start
    /\ role = Jobs("janitor", "processor")

\* ------------------------------------------------------------ environment
\* a measure arrives for an active metric
AddMeasure(m) ==
    /\ status[m] = "active"
    /\ Data < MaxData
    /\ queue' = [queue EXCEPT ![m] = @ + 1]
    /\ UNCHANGED <<status, series, lock, role, wk>>

\* an external actor marks an active metric for deletion
MarkDelete(m) ==
    /\ status[m] = "active"
    /\ status' = [status EXCEPT ![m] = "delete"]
    /\ UNCHANGED <<queue, series, lock, role, wk>>

\* --------------------------------------------------------- call and return
\* worker w calls an operation: its local state at the first statement
Call(w, job, name, sy, m, ids, first) ==
    /\ wk[w].pc = "idle"
    /\ role[w] = job
    /\ wk' = [wk EXCEPT ![w] = [IdleWorker EXCEPT !.pc = first, !.op = name,
                                  !.sync = sy, !.metric = m, !.toFold = ids]]
    /\ UNCHANGED <<status, queue, series, lock, role>>

\* local state s with one more driver call on record
Logged(s, ev) == [s EXCEPT !.log = Append(@, ev)]

\* the call returns normally (r = <<"ok">>) or raises r to its caller; the
\* local variables are gone
Leave(s, r) ==
    [IdleWorker EXCEPT !.op = s.op, !.sync = s.sync, !.claim = s.claim,
                       !.result = r, !.log = <<s.log[Len(s.log)]>>]

\* ---------------------------------------------------------- expunge_metrics
\* expunge_metrics(sync)
CallExpunge(w, sy) == Call(w, "janitor", "expunge", sy, NoMetric, {}, "exp_list")

\* where the loops of expunge_metrics go next, `rest` being the pairs left
\* after the metric or the group just handled, of sack `sack`
ExpungeGoto(s, rest, sack) ==
    IF rest = <<>> THEN Leave(s, <<"ok">>)
    ELSE [s EXCEPT !.todo = rest,
                   !.pc = IF Head(rest)[2] = sack THEN "exp_measures" ELSE "exp_acquire"]

\* the handler without its `if sync: raise`
ExpungeExceptSwallowed(s, err, rest, sack) == ExpungeGoto(s, rest, sack)

\* the handler leaving the metric's group when not sync
ExpungeExceptLeavesGroup(s, err, rest, sack) ==
    IF s.sync THEN Leave(s, <<err>>) ELSE ExpungeGoto(s, SkipGroup(rest, sack), sack)

\* except Exception (lines 78-82 and 96-100): raise when sync, else log the
\* error and go on with `rest`
ExpungeExcept(s, err, rest, sack) ==
    IF s.sync THEN Leave(s, <<err>>) ELSE ExpungeGoto(s, rest, sack)

\* lines 61-64: list the metrics marked as deleted, sorted by sack; the
\* query is outside every try block
ExpungeList(w) ==
    LET s == wk[w]
    IN  /\ s.pc = "exp_list"
        /\ UNCHANGED <<status, queue, series, lock, role>>
        /\ \/ \E order \in Orders(ListDeleted) :
                wk' = [wk EXCEPT ![w] =
                    ExpungeGoto(Logged(s, <<"list", "delete", "ok">>),
                                metrics_to_expunge(order), 0)]
           \/ /\ CanFail(w)
              /\ wk' = [wk EXCEPT ![w] =
                    Leave(Logged(s, <<"list", "delete", "IndexerError">>),
                          <<"IndexerError">>)]

\* the `continue` left out: the else branch runs on a sack that is locked
ExpungeBusyNoContinue(s, sack) == [s EXCEPT !.pc = "exp_measures"]

\* lines 69-73: the lock is held by another worker: retry later, go on with
\* the next group
ExpungeBusy(s, sack) == ExpungeGoto(s, SkipGroup(s.todo, sack), sack)

\* the acquire made blocking whatever sync is
ExpungeAcquireBlocking(w) ==
    LET s == wk[w]
        sack == Head(s.todo)[2]
        name == get_sack_lock(sack)
    IN  /\ s.pc = "exp_acquire"
        /\ UNCHANGED <<status, queue, series, role>>
        /\ \/ /\ lock[name] = NoWorker
              /\ lock' = [lock EXCEPT ![name] = w]
              /\ wk' = [wk EXCEPT ![w] =
                    [Logged(s, <<"acquire", sack, "ok">>) EXCEPT !.pc = "exp_release"]]
           \/ /\ CanFail(w)
              /\ wk' = [wk EXCEPT ![w] =
                    ExpungeExcept(Logged(s, <<"acquire", sack, "LockError">>),
                                  "LockError", SkipGroup(s.todo, sack), sack)]
              /\ UNCHANGED lock

\* lines 68-73: lock.acquire(blocking=sync)
ExpungeAcquire(w) ==
    LET s == wk[w]
        sack == Head(s.todo)[2]
        name == get_sack_lock(sack)
    IN  /\ s.pc = "exp_acquire"
        /\ UNCHANGED <<status, queue, series, role>>
        /\ \/ /\ lock[name] = NoWorker
              /\ lock' = [lock EXCEPT ![name] = w]
              /\ wk' = [wk EXCEPT ![w] =
                    [Logged(s, <<"acquire", sack, "ok">>) EXCEPT !.pc = "exp_release"]]
           \/ /\ lock[name] # NoWorker
              /\ ~s.sync
              /\ wk' = [wk EXCEPT ![w] =
                    ExpungeBusy(Logged(s, <<"acquire", sack, "busy">>), sack)]
              /\ UNCHANGED lock
           \/ /\ CanFail(w)
              /\ wk' = [wk EXCEPT ![w] =
                    ExpungeExcept(Logged(s, <<"acquire", sack, "LockError">>),
                                  "LockError", SkipGroup(s.todo, sack), sack)]
              /\ UNCHANGED lock

\* the group's deletions entered with the lock still held
ExpungeReleaseMissing(w) ==
    LET s == wk[w] IN
        /\ s.pc = "exp_release"
        /\ wk' = [wk EXCEPT ![w] = [s EXCEPT !.pc = "exp_measures"]]
        /\ UNCHANGED <<status, queue, series, lock, role>>

\* line 77: lock.release(), then the else branch starts on the group
ExpungeRelease(w) ==
    LET s == wk[w]
        sack == Head(s.todo)[2]
        name == get_sack_lock(sack)
    IN  /\ s.pc = "exp_release"
        /\ lock' = [lock EXCEPT ![name] = NoWorker]
        /\ wk' = [wk EXCEPT ![w] =
              [Logged(s, <<"release", sack, "ok">>) EXCEPT !.pc = "exp_measures"]]
        /\ UNCHANGED <<status, queue, series, role>>

\* lines 87-88: incoming.delete_unprocessed_measures_for_metric(metric.id)
ExpungeDeleteMeasures(w) ==
    LET s == wk[w]
        m == Head(s.todo)[1]
        sack == Head(s.todo)[2]
    IN  /\ s.pc = "exp_measures"
        /\ UNCHANGED <<status, series, lock, role>>
        /\ \/ /\ queue' = [queue EXCEPT ![m] = 0]
              /\ wk' = [wk EXCEPT ![w] =
                    [Logged(s, <<"delete_measures", m, "ok">>) EXCEPT !.pc = "exp_series"]]
           \/ /\ CanFail(w)
              /\ wk' = [wk EXCEPT ![w] =
                    ExpungeExcept(Logged(s, <<"delete_measures", m, "IncomingError">>),
                                  "IncomingError", Tail(s.todo), sack)]
              /\ UNCHANGED queue

\* the deletion of the series left out
ExpungeDeleteSeriesSkipped(w) ==
    LET s == wk[w] IN
        /\ s.pc = "exp_series"
        /\ wk' = [wk EXCEPT ![w] = [s EXCEPT !.pc = "exp_index"]]
        /\ UNCHANGED <<status, queue, series, lock, role>>

\* line 89: storage._delete_metric(metric)
ExpungeDeleteSeries(w) ==
    LET s == wk[w]
        m == Head(s.todo)[1]
        sack == Head(s.todo)[2]
    IN  /\ s.pc = "exp_series"
        /\ UNCHANGED <<status, queue, lock, role>>
        /\ \/ /\ series' = [series EXCEPT ![m] = FALSE]
              /\ wk' = [wk EXCEPT ![w] =
                    [Logged(s, <<"delete_series", m, "ok">>) EXCEPT !.pc = "exp_index"]]
           \/ /\ CanFail(w)
              /\ wk' = [wk EXCEPT ![w] =
                    ExpungeExcept(Logged(s, <<"delete_series", m, "StorageError">>),
                                  "StorageError", Tail(s.todo), sack)]
              /\ UNCHANGED series

\* NoSuchMetric not caught: it reaches the outer handler like any error
ExpungeNoSuchMetricUncaught(s, rest, sack) == ExpungeExcept(s, "NoSuchMetric", rest, sack)

\* except indexer.NoSuchMetric: pass (lines 92-95)
ExpungeNoSuchMetric(s, rest, sack) == ExpungeGoto(s, rest, sack)

\* lines 90-95: index.expunge_metric(metric.id); the indexer raises
\* NoSuchMetric when the record is already gone
ExpungeIndex(w) ==
    LET s == wk[w]
        m == Head(s.todo)[1]
        sack == Head(s.todo)[2]
    IN  /\ s.pc = "exp_index"
        /\ UNCHANGED <<queue, series, lock, role>>
        /\ \/ /\ status[m] # "gone"
              /\ status' = [status EXCEPT ![m] = "gone"]
              /\ wk' = [wk EXCEPT ![w] =
                    ExpungeGoto(Logged(s, <<"expunge", m, "ok">>), Tail(s.todo), sack)]
           \/ /\ status[m] = "gone"
              /\ wk' = [wk EXCEPT ![w] =
                    ExpungeNoSuchMetric(Logged(s, <<"expunge", m, "NoSuchMetric">>),
                                        Tail(s.todo), sack)]
              /\ UNCHANGED status
           \/ /\ CanFail(w)
              /\ wk' = [wk EXCEPT ![w] =
                    ExpungeExcept(Logged(s, <<"expunge", m, "IndexerError">>),
                                  "IndexerError", Tail(s.todo), sack)]
              /\ UNCHANGED status

\* ------------------------------------------------------ process_new_measures
\* the id lists process_new_measures is called with: one metric, and two
\* metrics of different sacks
ProcessInputs == {{"A"}, {"A", "C"}}

\* process_new_measures(metrics_to_process, sync)
CallProcess(w, ids, sy) ==
    Call(w, "processor", "process", sy, NoMetric, ids, "pnm_list")

\* refresh_metric without its finally: an error leaves it at once
ProcessLeaveNoFinally(s, r) ==
    IF s.op = "refresh" /\ r = <<"ok">>
    THEN [s EXCEPT !.pc = "ref_release", !.result = r, !.toFold = {}, !.batch = <<>>]
    ELSE Leave(s, r)

\* process_new_measures is over: back in refresh_metric's try block when it
\* was called from there, else back to the caller
ProcessLeave(s, r) ==
    IF s.op = "refresh"
    THEN [s EXCEPT !.pc = "ref_release", !.result = r, !.toFold = {}, !.batch = <<>>]
    ELSE Leave(s, r)

\* the handler without its `if sync`: it always raises
ProcessExceptRaised(s, err) == ProcessLeave(s, <<err>>)

\* the handler inside the loop: the failing item is dropped, the loop goes on
ProcessExceptInLoop(s, err) == [s EXCEPT !.toFold = @ \ {s.log[Len(s.log)][2]}]

\* except Exception (lines 135-138): raise when sync, else log and return
ProcessExcept(s, err) ==
    IF s.sync THEN ProcessLeave(s, <<err>>) ELSE ProcessLeave(s, <<"ok">>)

\* lines 122-124: resolve the ids against the indexer; outside the try block
ProcessList(w) ==
    LET s == wk[w]
    IN  /\ s.pc = "pnm_list"
        /\ UNCHANGED <<status, queue, series, lock, role>>
        /\ \/ wk' = [wk EXCEPT ![w] =
                [Logged(s, <<"list", "active", "ok">>) EXCEPT
                    !.toFold = ListActiveIn(s.toFold), !.pc = "pnm_claim"]]
           \/ /\ CanFail(w)
              /\ wk' = [wk EXCEPT ![w] =
                    ProcessLeave(Logged(s, <<"list", "active", "IndexerError">>),
                                 <<"IndexerError">>)]

\* the mapping the claim hands out: each claimed metric's pending measures
metrics_and_measures(ids) == [m \in ids |-> queue[m]]

\* the loop over the items whose measures are not empty
FoldItemsNonEmpty(b) == {m \in DOMAIN b : b[m] > 0}

\* line 130: for metric, measures in six.iteritems(metrics_and_measures):
\* every item of the mapping, whatever its measures
FoldItems(b) == DOMAIN b

\* lines 128-129: enter incoming.process_measure_for_metrics([m.id ...])
ProcessClaim(w) ==
    LET s == wk[w]
    IN  /\ s.pc = "pnm_claim"
        /\ UNCHANGED <<status, queue, series, lock, role>>
        /\ \/ wk' = [wk EXCEPT ![w] =
                [Logged(s, <<"claim", "batch", "ok">>) EXCEPT
                    !.batch = metrics_and_measures(s.toFold),
                    !.toFold = FoldItems(metrics_and_measures(s.toFold)),
                    !.claim = "open", !.pc = "pnm_fold"]]
           \/ /\ CanFail(w)
              /\ wk' = [wk EXCEPT ![w] =
                    ProcessExcept(Logged(s, <<"claim", "batch", "IncomingError">>),
                                  "IncomingError")]

\* the error caught inside the with block: the claim's success exit runs
ClaimExitCommitted(s) == [s EXCEPT !.claim = "committed"]

\* the with block is left by an exception: the claim's failure exit
ClaimFailureExit(s) == [s EXCEPT !.claim = "failed"]

\* lines 130-134: storage.compute_and_store_timeseries for the next item of
\* the mapping, in the mapping's (arbitrary) order
ProcessFold(w) ==
    LET s == wk[w]
    IN  /\ s.pc = "pnm_fold"
        /\ UNCHANGED <<status, queue, lock, role>>
        /\ \E m \in s.toFold :
             \/ /\ series' = [series EXCEPT ![m] = @ \/ s.batch[m] > 0]
                /\ wk' = [wk EXCEPT ![w] =
                      [Logged(s, <<"fold", m, "ok">>) EXCEPT !.toFold = @ \ {m}]]
             \/ /\ CanFail(w)
                /\ wk' = [wk EXCEPT ![w] =
                      ProcessExcept(
                          ClaimFailureExit(Logged(s, <<"fold", m, "StorageError">>)),
                          "StorageError")]
                /\ UNCHANGED series

\* what the claim's success exit leaves queued: the claimed measures are
\* removed, those that arrived since stay
Unclaimed(b) ==
    [m \in MetricIds |-> IF m \in DOMAIN b /\ queue[m] > b[m] THEN queue[m] - b[m]
                         ELSE IF m \in DOMAIN b THEN 0 ELSE queue[m]]

\* line 128: the with block ends normally, the claim's success exit runs
ProcessCommit(w) ==
    LET s == wk[w]
    IN  /\ s.pc = "pnm_fold"
        /\ s.toFold = {}
        /\ UNCHANGED <<status, series, lock, role>>
        /\ \/ /\ queue' = Unclaimed(s.batch)
              /\ wk' = [wk EXCEPT ![w] =
                    ProcessLeave([Logged(s, <<"commit", "batch", "ok">>)
                                     EXCEPT !.claim = "committed"], <<"ok">>)]
           \/ /\ CanFail(w)
              /\ wk' = [wk EXCEPT ![w] =
                    ProcessExcept([Logged(s, <<"commit", "batch", "IncomingError">>)
                                      EXCEPT !.claim = "commit_failed"], "IncomingError")]
              /\ UNCHANGED queue

\* ----------------------------------------------------------- refresh_metric
\* refresh_metric(metric, timeout).  The timeout decides how long a held lock
\* is waited for; the acquire ends either with the lock or, the lock being
\* held through the timeout (at once when the timeout is 0), with False.
CallRefresh(w, m) == Call(w, "api", "refresh", FALSE, m, {}, "ref_acquire")

\* line 110: the sync argument refresh_metric gives process_new_measures
\* (none: the default of line 114)
RefreshSync == FALSE

\* the result of acquire not looked at: processing starts without the lock
RefreshTimeoutIgnored(s) ==
    [s EXCEPT !.pc = "pnm_list", !.toFold = {s.metric}, !.sync = RefreshSync]

\* the error raised without the metric's id
RefreshTimeoutAnonymous(s) == Leave(s, <<"SackLockTimeoutError", NoMetric>>)

\* lines 105-108: raise SackLockTimeoutError, with the metric's id
RefreshTimeout(s) == Leave(s, <<"SackLockTimeoutError", s.metric>>)

\* lines 103-108: lock.acquire(blocking=timeout); not acquired within the
\* timeout: SackLockTimeoutError
RefreshAcquire(w) ==
    LET s == wk[w]
        sack == sack_for_metric(s.metric)
        name == get_sack_lock(sack)
    IN  /\ s.pc = "ref_acquire"
        /\ UNCHANGED <<status, queue, series, role>>
        /\ \/ /\ lock[name] = NoWorker
              /\ lock' = [lock EXCEPT ![name] = w]
              /\ wk' = [wk EXCEPT ![w] =
                    [Logged(s, <<"acquire", sack, "ok">>) EXCEPT
                        !.pc = "pnm_list", !.toFold = {s.metric}, !.sync = RefreshSync]]
           \/ /\ lock[name] # NoWorker
              /\ wk' = [wk EXCEPT ![w] =
                    RefreshTimeout(Logged(s, <<"acquire", sack, "busy">>))]
              /\ UNCHANGED lock
           \/ /\ CanFail(w)
              /\ wk' = [wk EXCEPT ![w] =
                    Leave(Logged(s, <<"acquire", sack, "LockError">>), <<"LockError">>)]
              /\ UNCHANGED lock

\* the return without the release
RefreshReleaseMissing(w) ==
    LET s == wk[w] IN
        /\ s.pc = "ref_release"
        /\ wk' = [wk EXCEPT ![w] = Leave(s, s.result)]
        /\ UNCHANGED <<status, queue, series, lock, role>>

\* lines 111-112: finally: lock.release(), then return or re-raise
RefreshRelease(w) ==
    LET s == wk[w]
        sack == sack_for_metric(s.metric)
        name == get_sack_lock(sack)
    IN  /\ s.pc = "ref_release"
        /\ lock' = [lock EXCEPT ![name] = NoWorker]
        /\ wk' = [wk EXCEPT ![w] = Leave(Logged(s, <<"release", sack, "ok">>), s.result)]
        /\ UNCHANGED <<status, queue, series, role>>

\* ------------------------------------------------------------ specification
Environment ==
    \/ \E m \in MetricIds : AddMeasure(m)
    \/ \E m \in MetricIds : MarkDelete(m)

Expunge ==
    \/ \E w \in Workers, sy \in BOOLEAN : CallExpunge(w, sy)
    \/ \E w \in Workers : ExpungeList(w)
    \/ \E w \in Workers : ExpungeAcquire(w)
    \/ \E w \in Workers : ExpungeRelease(w)
    \/ \E w \in Workers : ExpungeDeleteMeasures(w)
    \/ \E w \in Workers : ExpungeDeleteSeries(w)
    \/ \E w \in Workers : ExpungeIndex(w)

Process ==
    \/ \E w \in Workers : ProcessList(w)
    \/ \E w \in Workers : ProcessClaim(w)
    \/ \E w \in Workers : ProcessFold(w)
    \/ \E w \in Workers : ProcessCommit(w)

Refresh ==
    \/ \E w \in Workers, m \in MetricIds : CallRefresh(w, m)
    \/ \E w \in Workers : RefreshAcquire(w)
    \/ \E w \in Workers : RefreshRelease(w)

Next == Environment \/ Expunge \/ Refresh \/ Process

NextProcess ==
    \/ Environment
    \/ Expunge
    \/ \E w \in Workers, ids \in ProcessInputs, sy \in BOOLEAN : CallProcess(w, ids, sy)
    \/ Process

\* janitors and API workers
Spec == Init /\ [][Next]_vars

\* a janitor and a processor
SpecProcess == InitProcess /\ [][NextProcess]_vars

\* a janitor beside a worker that processes measures: an API worker, which
\* processes under the sack lock, or a processor, which takes no lock
InitRace == Start /\ role \in {Jobs("janitor", "api"), Jobs("janitor", "processor")}

NextRace ==
    \/ Next
    \/ \E w \in Workers, ids \in ProcessInputs, sy \in BOOLEAN : CallProcess(w, ids, sy)

SpecRace == InitRace /\ [][NextRace]_vars

\* the steps of worker w inside a call, by operation
ExpungeStep(w) ==
    \/ ExpungeList(w)
    \/ ExpungeAcquire(w)
    \/ ExpungeRelease(w)
    \/ ExpungeDeleteMeasures(w)
    \/ ExpungeDeleteSeries(w)
    \/ ExpungeIndex(w)

ProcessStep(w) == ProcessList(w) \/ ProcessClaim(w) \/ ProcessFold(w) \/ ProcessCommit(w)

RefreshStep(w) == RefreshAcquire(w) \/ RefreshRelease(w)

\* the driver call that worker w makes in this step returns: it does not
\* raise an unclassified error (no scheduling makes a driver fail)
Returns(w) ==
    /\ wk'[w].log # <<>>
    /\ wk'[w].log[Len(wk'[w].log)][3] \in Benign

\* worker w goes on in the call it is in
Progress(w) == (ExpungeStep(w) \/ ProcessStep(w) \/ RefreshStep(w)) /\ Returns(w)

\* an expunge_metrics call of worker w goes on
ExpungeProgress(w) == ExpungeStep(w) /\ Returns(w)

\* work at hand and a quiet environment: A is active with a measure queued,
\* B and C are pending-delete
StartPending ==
    /\ status = [m \in MetricIds |-> IF m = "A" THEN "active" ELSE "delete"]
    /\ queue = [m \in MetricIds |-> IF m = "A" THEN 1 ELSE 0]
    /\ series = [m \in MetricIds |-> FALSE]
    /\ lock = [n \in LockNames |-> NoWorker]
    /\ wk = [w \in Workers |-> IdleWorker]

InitFair ==
    /\ StartPending
    /\ role \in {Jobs("janitor", "janitor"), Jobs("janitor", "api"),
                 Jobs("api", "api"), Jobs("janitor", "processor")}

NextFair ==
    \/ Expunge
    \/ Refresh
    \/ \E w \in Workers, ids \in ProcessInputs, sy \in BOOLEAN : CallProcess(w, ids, sy)
    \/ Process

\* every worker is scheduled and the coordinator grants a lock that is free
\* again and again to a worker that keeps waiting for it
SpecFair == InitFair /\ [][NextFair]_vars /\ \A w \in Workers : SF_vars(Progress(w))

\* only the expunge_metrics calls are scheduled: the other workers may stop
\* anywhere, a lock in hand
SpecJanitorFair ==
    InitFair /\ [][NextFair]_vars /\ \A w \in Workers : WF_vars(ExpungeProgress(w))

\* ------------------------------------------------ properties: vocabulary
InCall(w) == wk[w].pc # "idle"

\* the last driver call on record of local state s
LastCall(s) == s.log[Len(s.log)]

\* the driver calls of kind `call` with outcome `outcome` in log l
Calls(l, call, outcome) == {i \in 1..Len(l) : l[i][1] = call /\ l[i][3] = outcome}

\* the sack locks worker w holds
Held(w) == {n \in LockNames : lock[n] = w}

\* worker w is between the acquire and the release of the lock of `sack`
InLockedSection(w, sack) ==
    \/ wk[w].pc = "exp_release" /\ Head(wk[w].todo)[2] = sack
    \/ /\ wk[w].op = "refresh"
       /\ wk[w].pc \in {"pnm_list", "pnm_claim", "pnm_fold", "ref_release"}
       /\ sack_for_metric(wk[w].metric) = sack

\* worker w runs measure processing under the lock of `sack`
Processing(w, sack) ==
    /\ wk[w].op = "refresh"
    /\ wk[w].pc \in {"pnm_list", "pnm_claim", "pnm_fold"}
    /\ sack_for_metric(wk[w].metric) = sack

\* the processing of the metric's measures failed in w's refresh_metric:
\* the batch claim could not be opened, or the fold raised inside it
ProcessingFailed(w) ==
    \/ wk[w].claim = "failed"
    \/ /\ wk[w].pc = "ref_release"
       /\ Calls(wk[w].log, "claim", "IncomingError") # {}

\* ------------------------------------------------------------ properties
\* C1: once refresh_metric holds the sack lock, an error raised while the
\* metric's measures are processed (the batch claim or the fold failing)
\* reaches the caller: refresh_metric never returns normally after that.
C1_RefreshRaisesProcessingError ==
    \A w \in Workers :
        (wk[w].op = "refresh" /\ wk[w].pc \in {"ref_release", "idle"} /\ ProcessingFailed(w))
            => wk[w].result # <<"ok">>

\* C2: at most one worker holds the lock of a sack, a worker inside the
\* lock-protected section of a sack is the holder of its lock, so no two
\* workers are inside the section of one sack, and at most one worker runs
\* measure processing under that lock.
C2_SackMutualExclusion ==
    \A sack \in Sacks :
        /\ \A w \in Workers : InLockedSection(w, sack) => lock[get_sack_lock(sack)] = w
        /\ Cardinality({w \in Workers : InLockedSection(w, sack)}) <= 1
        /\ Cardinality({w \in Workers : Processing(w, sack)}) <= 1

\* two workers are at the lock of one sack: one holds it inside its section,
\* the other is about to try to acquire it
C2_Witness ==
    \E w1 \in Workers, w2 \in Workers, sack \in Sacks :
        /\ w1 # w2
        /\ Processing(w1, sack)
        /\ \/ wk[w2].pc = "ref_acquire" /\ sack_for_metric(wk[w2].metric) = sack
           \/ wk[w2].pc = "exp_acquire" /\ Head(wk[w2].todo)[2] = sack

\* C3: a worker outside a call holds no sack lock; inside a call, its
\* successful acquires exceed its releases by exactly the locks it holds,
\* which is at most one: each acquire is paired with one release.
C3_AcquirePairedWithRelease ==
    \A w \in Workers :
        /\ ~InCall(w) => Held(w) = {}
        /\ InCall(w) =>
              /\ Cardinality(Calls(wk[w].log, "acquire", "ok"))
                     = Cardinality(Calls(wk[w].log, "release", "ok")) + Cardinality(Held(w))
              /\ Cardinality(Held(w)) <= 1

\* refresh_metric has raised the indexer's error after it had acquired the
\* lock, and expunge_metrics has raised in sync mode after an acquire
C3_Witness ==
    \E w \in Workers :
        /\ wk[w].pc = "idle"
        /\ wk[w].op = "refresh"
        /\ wk[w].result = <<"IndexerError">>
        /\ LastCall(wk[w])[1] = "release"

\* the step taken is one of worker w, and the driver call it made is `call`
\* with outcome `outcome`
StepOf(w, call, outcome) ==
    /\ wk'[w] # wk[w]
    /\ wk'[w].log # <<>>
    /\ wk'[w].log # wk[w].log
    /\ LastCall(wk'[w])[1] = call
    /\ LastCall(wk'[w])[3] = outcome

\* the three deletion steps of expunge_metrics
DeletionSteps == {"delete_measures", "delete_series", "expunge"}

\* the deletion steps on record in log l for the metrics of `sack`
DeletionsIn(l, sack) ==
    {i \in 1..Len(l) : l[i][1] \in DeletionSteps /\ sack_for_metric(l[i][2]) = sack}

\* the pairs of sequence `pairs`, as a set
PairsOf(pairs) == {pairs[i] : i \in 1..Len(pairs)}

\* C4: when refresh_metric(m, timeout) finds the lock of m's sack held by
\* another worker until the timeout, it raises SackLockTimeoutError carrying
\* m's id, the failed acquire is the only driver call of the whole call (no
\* indexer, ingestion or storage call, no release), and the lock, the index,
\* the queues and the series are unchanged: the holder still holds the lock.
C4_RefreshTimeoutRaises ==
    [][\A w \in Workers :
          (wk[w].pc = "ref_acquire" /\ StepOf(w, "acquire", "busy")) =>
              /\ lock[get_sack_lock(sack_for_metric(wk[w].metric))] \notin {w, NoWorker}
              /\ wk'[w].pc = "idle"
              /\ wk'[w].result = <<"SackLockTimeoutError", wk[w].metric>>
              /\ wk[w].log = <<>>
              /\ wk'[w].log = <<<<"acquire", sack_for_metric(wk[w].metric), "busy">>>>
              /\ UNCHANGED <<status, queue, series, lock>>]_vars

\* refresh_metric has raised SackLockTimeoutError for a metric whose sack
\* lock another worker holds
C4_Witness ==
    \E w \in Workers :
        /\ wk[w].pc = "idle"
        /\ wk[w].op = "refresh"
        /\ wk[w].result[1] = "SackLockTimeoutError"
        /\ wk[w].result[2] \in MetricIds
        /\ lock[get_sack_lock(sack_for_metric(wk[w].result[2]))] \notin {w, NoWorker}

\* C5 (states): in expunge_metrics(sync=False), once the lock of a sack was
\* found held, the call makes no deletion step for a metric of that sack and
\* keeps no metric of that sack to do; a call whose last driver call was the
\* failed acquire has returned normally.
C5_SkippedSackUntouched ==
    \A w \in Workers :
        (wk[w].op = "expunge" /\ ~wk[w].sync) =>
            /\ \A i \in Calls(wk[w].log, "acquire", "busy") :
                  /\ DeletionsIn(wk[w].log, wk[w].log[i][2]) = {}
                  /\ \A p \in PairsOf(wk[w].todo) : p[2] # wk[w].log[i][2]
            /\ (~InCall(w) /\ Calls(wk[w].log, "acquire", "busy") # {})
                  => wk[w].result = <<"ok">>

\* C5 (steps): the failed acquire changes nothing but the worker's position,
\* and drops the pairs of the held sack only: every pending-delete metric of
\* another sack stays to do, and the call goes on to the next group's acquire
\* when there is one.
C5_OtherSacksKept ==
    \A w \in Workers :
        (wk[w].pc = "exp_acquire" /\ StepOf(w, "acquire", "busy")) =>
            LET sack == Head(wk[w].todo)[2]
                rest == {q \in PairsOf(wk[w].todo) : q[2] # sack}
            IN /\ ~wk[w].sync
               /\ lock[get_sack_lock(sack)] \notin {w, NoWorker}
               /\ UNCHANGED <<status, queue, series, lock>>
               /\ PairsOf(wk'[w].todo) = rest
               /\ rest # {} => wk'[w].pc = "exp_acquire"
               /\ rest = {} => (wk'[w].pc = "idle" /\ wk'[w].result = <<"ok">>)

\* C5: expunge_metrics(sync=False) skips a sack whose lock is held by
\* another worker: it returns normally, makes none of the three deletion
\* steps for any metric of that sack in the call, and still expunges the
\* pending-delete metrics of the other sacks.
C5_AsyncExpungeSkipsHeldSack ==
    []C5_SkippedSackUntouched /\ [][C5_OtherSacksKept]_vars

\* an async expunge found the lock of one sack held, has since deleted the
\* measures and the series of a metric of another sack and is about to
\* expunge it from the index
C5_Witness ==
    \E w \in Workers :
        /\ wk[w].op = "expunge"
        /\ ~wk[w].sync
        /\ wk[w].pc = "exp_index"
        /\ \E i \in Calls(wk[w].log, "acquire", "busy") :
              \E j \in Calls(wk[w].log, "delete_series", "ok") :
                  /\ i < j
                  /\ sack_for_metric(wk[w].log[j][2]) # wk[w].log[i][2]

\* C6 (states): an expunge_metrics(sync=True) call in progress has no failed
\* driver call behind it, and one that ended on a failed deletion step has
\* raised that step's error.
C6_NothingAfterFailure ==
    \A w \in Workers :
        (wk[w].op = "expunge" /\ wk[w].sync) =>
            /\ InCall(w) => Faults(wk[w].log) = {}
            /\ (~InCall(w) /\ Faults(wk[w].log) # {})
                  => wk[w].result = <<LastCall(wk[w])[3]>>

\* C6 (steps): the failing deletion step ends the call at once and changes
\* no metric: what was deleted before stays deleted, nothing else is.
C6_FailureEndsCall ==
    \A w \in Workers, step \in DeletionSteps, err \in {"IncomingError", "StorageError", "IndexerError"} :
        (wk[w].op = "expunge" /\ wk[w].sync /\ StepOf(w, step, err)) =>
            /\ wk'[w].pc = "idle"
            /\ wk'[w].result = <<err>>
            /\ UNCHANGED <<status, queue, series, lock>>

\* C6: in expunge_metrics(sync=True) a deletion step failing with anything
\* but NoSuchMetric makes the call raise that same error; the call makes no
\* further deletion step or acquire after it, and undoes nothing.
C6_SyncExpungeRaisesAndStops ==
    []C6_NothingAfterFailure /\ [][C6_FailureEndsCall]_vars

\* a sync expunge has raised the storage driver's error after it had
\* expunged another metric, leaving a pending-delete metric behind
C6_Witness ==
    \E w \in Workers :
        /\ wk[w].pc = "idle"
        /\ wk[w].op = "expunge"
        /\ wk[w].sync
        /\ wk[w].result = <<"StorageError">>
        /\ \E m \in MetricIds : status[m] = "gone"
        /\ \E m \in MetricIds : status[m] = "delete"

\* C7 (states): in expunge_metrics a call that ended on NoSuchMetric has
\* returned normally, and no call deletes the measures or the series of one
\* metric twice.
C7_SwallowedOnce ==
    \A w \in Workers :
        wk[w].op = "expunge" =>
            /\ (~InCall(w) /\ Calls(wk[w].log, "expunge", "NoSuchMetric") # {})
                  => wk[w].result = <<"ok">>
            /\ \A m \in MetricIds, step \in {"delete_measures", "delete_series"} :
                  Cardinality({i \in 1..Len(wk[w].log) :
                                  wk[w].log[i][1] = step /\ wk[w].log[i][2] = m}) <= 1

\* C7 (steps): after NoSuchMetric the call goes on with exactly the pairs
\* that were left, or returns normally when none is left, in both modes.
C7_GoesOn ==
    \A w \in Workers :
        StepOf(w, "expunge", "NoSuchMetric") =>
            LET rest == Tail(wk[w].todo)
            IN /\ status[Head(wk[w].todo)[1]] = "gone"
               /\ UNCHANGED <<status, queue, series, lock>>
               /\ rest # <<>> => (wk'[w].todo = rest
                                  /\ wk'[w].pc \in {"exp_measures", "exp_acquire"})
               /\ rest = <<>> => (wk'[w].pc = "idle" /\ wk'[w].result = <<"ok">>)

\* C7: in expunge_metrics, sync or not, NoSuchMetric from the indexer's
\* expunge is swallowed: the call does not raise because of it, deletes the
\* measures and the series of a metric at most once, and goes on with the
\* metrics and sacks that remain.
C7_NoSuchMetricSwallowed ==
    []C7_SwallowedOnce /\ [][C7_GoesOn]_vars

\* a sync expunge got NoSuchMetric for one metric, another janitor having
\* expunged it first, and went on to a deletion step of another metric
C7_Witness ==
    \E w \in Workers :
        /\ wk[w].op = "expunge"
        /\ wk[w].sync
        /\ \E i \in Calls(wk[w].log, "expunge", "NoSuchMetric") :
              \E j \in Calls(wk[w].log, "delete_measures", "ok") : i < j

\* an asynchronous call of expunge_metrics or process_new_measures by w
AsyncCall(w) == wk[w].op \in {"expunge", "process"} /\ ~wk[w].sync

\* C8 (as stated): expunge_metrics(sync=False) and
\* process_new_measures(ids, sync=False) never raise to the caller,
\* whichever collaborator call fails: every such call that is over has
\* returned normally.
C8_AsyncNeverRaises ==
    \A w \in Workers :
        (AsyncCall(w) /\ ~InCall(w)) => wk[w].result = <<"ok">>

\* C8 (amended): an asynchronous expunge_metrics or process_new_measures
\* returns normally whichever collaborator call made after the initial
\* metric listing fails; the only error it raises is the one of the initial
\* index.list_metrics query, which is made outside the try blocks.
C8_AsyncRaisesListingErrorOnly ==
    \A w \in Workers :
        (AsyncCall(w) /\ ~InCall(w)) =>
            \/ wk[w].result = <<"ok">>
            \/ /\ LastCall(wk[w])[1] = "list"
               /\ LastCall(wk[w])[3] = "IndexerError"
               /\ wk[w].result = <<"IndexerError">>

\* an asynchronous expunge_metrics and an asynchronous process_new_measures
\* have both returned normally from a call whose last driver call failed
C8_Witness ==
    \A op \in {"expunge", "process"} :
        \E w \in Workers :
            /\ wk[w].op = op
            /\ ~wk[w].sync
            /\ ~InCall(w)
            /\ Faults(wk[w].log) # {}
            /\ LastCall(wk[w])[1] # "list"
            /\ wk[w].result = <<"ok">>

\* the ways a batch claim is left
ClaimExits == {"committed", "failed", "commit_failed"}

\* the exits of the batch claim on record in log l: the fold that raised
\* inside the with block, and the exit after the last fold
ExitsIn(l) == {i \in 1..Len(l) : l[i][1] = "commit" \/ (l[i][1] = "fold" /\ l[i][3] # "ok")}

\* C9 (states): in process_new_measures the claim is open exactly while the
\* folds run; once they are over it has been left, and no call leaves its
\* claim twice.
C9_ClaimExitedOnce ==
    \A w \in Workers :
        wk[w].op = "process" =>
            /\ wk[w].claim = "open" <=> wk[w].pc = "pnm_fold"
            /\ wk[w].claim = "none" <=> /\ ExitsIn(wk[w].log) = {}
                                        /\ wk[w].pc # "pnm_fold"
            /\ Cardinality(ExitsIn(wk[w].log)) <= 1

\* C9 (steps): a fold that fails leaves the claim by its failure exit, with
\* the queued measures of every metric as they were, and raises the storage
\* error when sync; an exited claim is not exited again in the call.
C9_FoldFailureExit ==
    \A w \in Workers :
        /\ (wk[w].op = "process" /\ StepOf(w, "fold", "StorageError")) =>
              /\ wk[w].claim = "open"
              /\ wk'[w].claim = "failed"
              /\ queue' = queue
              /\ wk'[w].pc = "idle"
              /\ wk'[w].result = IF wk[w].sync THEN <<"StorageError">> ELSE <<"ok">>
        /\ (wk[w].claim \in ClaimExits /\ wk'[w].claim # wk[w].claim) =>
              (~InCall(w) /\ wk'[w].claim = "none")

\* C9: process_new_measures([m], sync=True) raises the error of the storage
\* fold that failed for m, the batch claim being left by its failure exit and
\* not its commit exit, so that m's measures stay queued; in both modes and
\* on every exit path an opened claim is left exactly once.
C9_FoldFailureLeavesClaimByFailureExit ==
    []C9_ClaimExitedOnce /\ [][C9_FoldFailureExit]_vars

\* a sync process_new_measures has raised the storage error of the fold of a
\* metric whose measure is still queued, its claim left by the failure exit
C9_Witness ==
    \E w \in Workers :
        /\ wk[w].pc = "idle"
        /\ wk[w].op = "process"
        /\ wk[w].sync
        /\ wk[w].result = <<"StorageError">>
        /\ wk[w].claim = "failed"
        /\ LastCall(wk[w])[1] = "fold"
        /\ queue[LastCall(wk[w])[2]] > 0

\* C10 (states): the metrics an expunge_metrics call has left to do are
\* pending-delete or already gone, never active.
C10_OnlyListedToDo ==
    \A w \in Workers :
        wk[w].op = "expunge" =>
            \A p \in PairsOf(wk[w].todo) : status[p[1]] # "active"

\* C10 (steps): a step of expunge_metrics leaves the index record, the
\* queued measures and the stored series of every active metric unchanged.
C10_ActiveUntouched ==
    \A w \in Workers :
        (wk[w].op = "expunge" /\ InCall(w) /\ wk'[w] # wk[w]) =>
            \A m \in MetricIds :
                status[m] = "active" =>
                    /\ status'[m] = status[m]
                    /\ queue'[m] = queue[m]
                    /\ series'[m] = series[m]

\* C10: expunge_metrics touches only metrics the indexer listed as
\* pending-delete: the index record, queued measures and stored series of an
\* active metric are unchanged by every step of every expunge_metrics call,
\* also when pending-delete metrics of its sack are expunged.
C10_ExpungeTouchesPendingDeleteOnly ==
    []C10_OnlyListedToDo /\ [][C10_ActiveUntouched]_vars

\* the scenario's end: B (sack 1) and C (sack 2) are expunged by a call that
\* returned normally, A (sack 1) is active with its measure still queued
C10_Witness ==
    /\ status["A"] = "active"
    /\ queue["A"] = 1
    /\ status["B"] = "gone"
    /\ status["C"] = "gone"
    /\ \E w \in Workers :
          /\ wk[w].pc = "idle"
          /\ wk[w].op = "expunge"
          /\ wk[w].result = <<"ok">>
          /\ LastCall(wk[w]) = <<"expunge", "C", "ok">>

\* worker w is inside the deletion steps of metric m: step (a) is done,
\* step (c) is not
Deleting(w, m) ==
    /\ wk[w].op = "expunge"
    /\ wk[w].pc \in {"exp_series", "exp_index"}
    /\ Head(wk[w].todo)[1] = m

\* worker w is at one of the deletion steps of expunge_metrics
AtDeletionStep(w) == wk[w].pc \in {"exp_measures", "exp_series", "exp_index"}

\* C11 (as stated): the sack lock serializes concurrent expungers, so that
\* no two expunge_metrics calls are inside the deletion steps of the same
\* pending-delete metric at the same time.
C11_ExpungersSerialized ==
    \A w1 \in Workers, w2 \in Workers, m \in MetricIds :
        (Deleting(w1, m) /\ Deleting(w2, m)) => w1 = w2

\* C11 (amended): the sack lock serializes only the acquire-release probe of
\* expunge_metrics: at most one expunger is between the acquire and the
\* release of a sack's lock, and every deletion step is made with no lock
\* held by the expunger, so deletions of one metric by two expungers may
\* overlap.
C11_ProbeSerializedDeletionsUnlocked ==
    /\ \A sack \in Sacks :
          Cardinality({w \in Workers : wk[w].pc = "exp_release"
                                        /\ Head(wk[w].todo)[2] = sack}) <= 1
    /\ \A w \in Workers :
          (wk[w].op = "expunge" /\ AtDeletionStep(w)) => Held(w) = {}

\* two expungers are inside the deletion steps of the same metric, neither
\* holding a lock
C11_Witness ==
    \E w1 \in Workers, w2 \in Workers, m \in MetricIds :
        /\ w1 # w2
        /\ Deleting(w1, m)
        /\ Deleting(w2, m)
        /\ Held(w1) = {}
        /\ Held(w2) = {}

\* worker w is about to call compute_and_store_timeseries for metric m
AboutToFold(w, m) == wk[w].pc = "pnm_fold" /\ m \in wk[w].toFold

\* an expunger has metric m in hand: it is at one of m's deletion steps
Expunging(m) ==
    \E w \in Workers :
        wk[w].op = "expunge" /\ AtDeletionStep(w) /\ Head(wk[w].todo)[1] = m

Made(w, call) ==
    /\ wk'[w] # wk[w]
    /\ wk'[w].log # <<>>
    /\ wk'[w].log # wk[w].log
    /\ LastCall(wk'[w])[1] = call

\* the deletion steps on record in log l for metric m
DeletionsOf(l, m) == {i \in 1..Len(l) : l[i][1] \in DeletionSteps /\ l[i][2] = m}

\* C13 (steps of one call): each deletion step of expunge_metrics is made on
\* the metric in hand; (a) is the first step made on it, (b) directly follows
\* a successful (a) and (c) directly follows a successful (b); a failed (a)
\* or (b) leaves the index as it is, a pending-delete metric staying
\* pending-delete, and ends the call's work on that metric.
C13_StepsInOrder ==
    \A w \in Workers :
        (wk[w].op = "expunge" /\ \E step \in DeletionSteps : Made(w, step)) =>
            LET m    == Head(wk[w].todo)[1]
                made == LastCall(wk'[w])
            IN /\ made[2] = m
               /\ made[1] = "delete_measures" => DeletionsOf(wk[w].log, m) = {}
               /\ made[1] = "delete_series" =>
                     LastCall(wk[w]) = <<"delete_measures", m, "ok">>
               /\ made[1] = "expunge" =>
                     /\ LastCall(wk[w]) = <<"delete_series", m, "ok">>
                     /\ wk[w].log[Len(wk[w].log) - 1] = <<"delete_measures", m, "ok">>
               /\ (made[1] # "expunge" /\ made[3] # "ok") =>
                     /\ status' = status
                     /\ status[m] = "delete" => m \in {x \in MetricIds : status'[x] = "delete"}
                     /\ InCall(w)' => Head(wk'[w].todo)[1] # m

\* C13 (index): an index record is removed only by a successful step (c) on
\* a pending-delete metric.
C13_RemovedByExpungeOnly ==
    \A m \in MetricIds :
        (status[m] # "gone" /\ status'[m] = "gone") =>
            /\ status[m] = "delete"
            /\ \E w \in Workers :
                  Made(w, "expunge") /\ LastCall(wk'[w]) = <<"expunge", m, "ok">>

\* C13: expunge_metrics makes the deletion steps of a metric in the order
\* (a) queued measures, (b) stored series, (c) index record, a later step
\* only after every earlier one succeeded in the same call: the index record
\* goes only after measures and series were deleted, and a metric whose (a)
\* or (b) failed stays pending-delete for the next expunge_metrics call.
C13_DeletionStepsInOrder ==
    [][C13_StepsInOrder /\ C13_RemovedByExpungeOnly]_vars

\* a sync expunge_metrics has raised the storage error of step (b) for a
\* metric, which is still pending-delete and has since been listed by
\* another call that has reached step (c) for it
C13_Witness ==
    \E w1 \in Workers, w2 \in Workers, m \in MetricIds :
        /\ wk[w1].pc = "idle"
        /\ wk[w1].op = "expunge"
        /\ LastCall(wk[w1]) = <<"delete_series", m, "StorageError">>
        /\ wk[w1].result = <<"StorageError">>
        /\ status[m] = "delete"
        /\ wk[w2].pc = "exp_index"
        /\ Head(wk[w2].todo)[1] = m

\* the unclassified errors of the drivers
Errors == {"LockError", "IncomingError", "StorageError", "IndexerError"}

\* C14: in expunge_metrics(sync=False) a failed deletion step costs only the
\* metric it was made for: the step changes no metric and no lock, and the
\* call goes on with exactly the pairs that were left after that metric, the
\* rest of its sack first, then the later sacks, or returns normally when
\* none is left.
C14_AsyncFailureConfined ==
    [][\A w \in Workers, step \in DeletionSteps, err \in Errors :
          (wk[w].op = "expunge" /\ ~wk[w].sync /\ StepOf(w, step, err)) =>
              LET rest == Tail(wk[w].todo)
                  sack == Head(wk[w].todo)[2]
              IN /\ UNCHANGED <<status, queue, series, lock>>
                 /\ rest = <<>> => (wk'[w].pc = "idle" /\ wk'[w].result = <<"ok">>)
                 /\ rest # <<>> =>
                       /\ wk'[w].todo = rest
                       /\ wk'[w].pc = IF Head(rest)[2] = sack THEN "exp_measures"
                                      ELSE "exp_acquire"]_vars

\* an async expunge_metrics failed on step (a) of one metric and has since
\* deleted the measures and the series of another metric of the same sack
C14_Witness ==
    \E w \in Workers :
        /\ wk[w].op = "expunge"
        /\ ~wk[w].sync
        /\ wk[w].pc = "exp_index"
        /\ \E i \in Calls(wk[w].log, "delete_measures", "IncomingError") :
              \E j \in Calls(wk[w].log, "delete_series", "ok") :
                  /\ i < j
                  /\ wk[w].log[j][2] # wk[w].log[i][2]
                  /\ sack_for_metric(wk[w].log[j][2]) = sack_for_metric(wk[w].log[i][2])

\* C15 (states): in process_new_measures a fold that failed is the last
\* driver call of its call, and the call is over.
C15_NoFoldAfterFailure ==
    \A w \in Workers :
        wk[w].op = "process" =>
            \A i \in Calls(wk[w].log, "fold", "StorageError") :
                i = Len(wk[w].log) /\ ~InCall(w)

\* C15 (steps): the failing fold ends the call in both modes, whatever is
\* left to fold, and changes no stored series: what was folded before stays.
C15_FoldFailureStops ==
    \A w \in Workers :
        (wk[w].op = "process" /\ StepOf(w, "fold", "StorageError")) =>
            /\ wk'[w].pc = "idle"
            /\ wk'[w].toFold = {}
            /\ series' = series

\* C15: in process_new_measures, sync or not, a fold that fails partway
\* through the claimed set stops the iteration: the series folded before it
\* stay stored and no fold is made in that call for the metrics after it.
C15_FoldFailureStopsIteration ==
    []C15_NoFoldAfterFailure /\ [][C15_FoldFailureStops]_vars

\* an async process_new_measures ended on the failed fold of one metric
\* while another metric has its series stored and its measure still queued:
\* a fold whose batch was not committed
C15_Witness ==
    \E w \in Workers, m \in MetricIds :
        /\ wk[w].pc = "idle"
        /\ wk[w].op = "process"
        /\ ~wk[w].sync
        /\ LastCall(wk[w])[1] = "fold"
        /\ LastCall(wk[w])[3] = "StorageError"
        /\ LastCall(wk[w])[2] # m
        /\ series[m]
        /\ queue[m] > 0

\* the metrics that worker w has folded in the call it is in
Folded(w) == {wk[w].log[i][2] : i \in Calls(wk[w].log, "fold", "ok")}

\* C16 (as stated): process_new_measures calls compute_and_store_timeseries
\* only for metrics whose claimed measures are not empty.
C16_FoldsNonEmptyOnly ==
    \A w \in Workers :
        wk[w].pc = "pnm_fold" =>
            \A m \in Folded(w) : wk[w].batch[m] > 0

\* C16 (amended, states): while the folds run, the metrics folded and the
\* metrics left to fold are together the metrics of the claim's mapping,
\* those mapped to no measure included.
C16_MappingFolded ==
    \A w \in Workers :
        wk[w].pc = "pnm_fold" =>
            /\ Folded(w) \cup wk[w].toFold = DOMAIN wk[w].batch
            /\ Folded(w) \cap wk[w].toFold = {}

\* C16 (amended, steps): the with block is left normally only when every
\* metric of the mapping was folded; a fold is made for a metric of the
\* mapping and stores a series exactly when its measures are not empty.
C16_EveryItemFolded ==
    \A w \in Workers :
        /\ StepOf(w, "commit", "ok") => Folded(w) = DOMAIN wk[w].batch
        /\ StepOf(w, "fold", "ok") =>
              LET m == LastCall(wk'[w])[2]
              IN /\ m \in DOMAIN wk[w].batch
                 /\ series'[m] = (series[m] \/ wk[w].batch[m] > 0)

\* C16 (amended): process_new_measures calls compute_and_store_timeseries
\* for every metric of the mapping the batch claim yields, without looking
\* at the measures: a metric mapped to an empty sequence is folded like any
\* other, with its empty sequence.
C16_FoldsEveryClaimedMetric ==
    []C16_MappingFolded /\ [][C16_EveryItemFolded]_vars

\* compute_and_store_timeseries was called for a metric that the claim
\* mapped to no measure, and no series was stored for it
C16_Witness ==
    \E w \in Workers, m \in MetricIds :
        /\ wk[w].pc = "pnm_fold"
        /\ m \in Folded(w)
        /\ wk[w].batch[m] = 0
        /\ ~series[m]

\* the acquire attempts on record in log l, whatever their outcome
Acquires(l) == {i \in 1..Len(l) : l[i][1] = "acquire"}

\* C17 (log): an expunge_metrics call makes at most one acquire attempt per
\* sack, and every deletion step it makes follows the successful acquire of
\* the metric's sack with no other acquire attempt in between.
C17_OneAcquirePerSack ==
    \A w \in Workers :
        (wk[w].op = "expunge" /\ InCall(w)) =>
            LET l == wk[w].log
            IN /\ \A i \in Acquires(l), j \in Acquires(l) : l[i][2] = l[j][2] => i = j
               /\ \A j \in 1..Len(l) :
                     l[j][1] \in DeletionSteps =>
                         \E i \in Calls(l, "acquire", "ok") :
                             /\ i < j
                             /\ l[i][2] = sack_for_metric(l[j][2])
                             /\ \A k \in Acquires(l) : ~(i < k /\ k < j)

\* C17 (pairs left): the pairs a call has left are in the order of their
\* sacks, and a pair whose sack was already tried belongs to the group the
\* call is in: the last acquire was that sack's.
C17_GroupHandledTogether ==
    \A w \in Workers :
        (wk[w].op = "expunge" /\ InCall(w)) =>
            LET l == wk[w].log
                todo == wk[w].todo
            IN /\ \A a \in 1..Len(todo), b \in 1..Len(todo) :
                     a < b => todo[a][2] <= todo[b][2]
               /\ \A a \in 1..Len(todo), i \in Acquires(l) :
                     l[i][2] = todo[a][2] =>
                         /\ \A k \in Acquires(l) : k <= i
                         /\ wk[w].pc \in {"exp_release", "exp_measures", "exp_series", "exp_index"}
                         /\ todo[a][2] = Head(todo)[2]

\* C17: one expunge_metrics call tries each sack's lock at most once, however
\* many pending-delete metrics the sack has and in whatever order the indexer
\* returns them, and handles all pending-delete metrics of a sack in the one
\* group that follows that attempt.
C17_SackLockAcquiredOncePerCall ==
    C17_OneAcquirePerSack /\ C17_GroupHandledTogether

\* a call has deleted the measures of both metrics of sack 1 after one
\* acquire and has gone on to the acquire of sack 2
C17_Witness ==
    \E w \in Workers :
        /\ wk[w].op = "expunge"
        /\ InCall(w)
        /\ Cardinality(Acquires(wk[w].log)) = 2
        /\ {wk[w].log[i][2] : i \in Calls(wk[w].log, "delete_measures", "ok")} = {"A", "B"}

\* the lock of the sack that worker w is working on
OwnLock(w) ==
    IF wk[w].op = "refresh" THEN get_sack_lock(sack_for_metric(wk[w].metric))
    ELSE get_sack_lock(Head(wk[w].todo)[2])

\* C18: a worker holds at most one sack lock and holds none when it tries to
\* acquire one: expunge_metrics holds a lock only between the acquire and the
\* release of the sack in hand, which comes before the next sack's acquire,
\* and refresh_metric holds only the lock of its metric's sack.
C18_OneLockNoNesting ==
    \A w \in Workers :
        /\ Cardinality(Held(w)) <= 1
        /\ wk[w].pc \in {"exp_acquire", "ref_acquire"} => Held(w) = {}
        /\ Held(w) # {} =>
              /\ Held(w) = {OwnLock(w)}
              /\ wk[w].op = "expunge" => wk[w].pc = "exp_release"
              /\ wk[w].op = "refresh" =>
                    wk[w].pc \in {"pnm_list", "pnm_claim", "pnm_fold", "ref_release"}

\* an expunge_metrics call that has acquired and released the lock of one
\* sack is at the acquire of the next sack, while another worker holds a lock
C18_Witness ==
    \E w1 \in Workers, w2 \in Workers :
        /\ wk[w1].pc = "exp_acquire"
        /\ Calls(wk[w1].log, "release", "ok") # {}
        /\ Held(w1) = {}
        /\ Held(w2) # {}

\* worker w waits at the acquire of a lock that another worker holds
Waiting(w) ==
    /\ wk[w].pc = "exp_acquire"
    /\ lock[OwnLock(w)] \notin {w, NoWorker}

\* C19 (states): an expunge_metrics call that cannot go on is a sync call
\* waiting at the acquire of a lock that another worker holds.
C19_OnlySyncWaits ==
    \A w \in Workers :
        (wk[w].op = "expunge" /\ InCall(w) /\ ~ENABLED ExpungeProgress(w)) =>
            (wk[w].sync /\ Waiting(w))

\* C19 (termination): an expunge_metrics(sync=False) call ends, whatever the
\* other workers do with their locks.
C19_AsyncTerminates ==
    \A w \in Workers :
        (wk[w].op = "expunge" /\ ~wk[w].sync /\ InCall(w)) ~> ~InCall(w)

\* C19: expunge_metrics(sync=False) never blocks on a lock acquire: it ends
\* even when the other workers never release the locks they hold, skipping
\* the sacks whose lock is held; only expunge_metrics(sync=True) may wait for
\* a lock holder.
C19_AsyncExpungeNeverBlocks ==
    []C19_OnlySyncWaits /\ C19_AsyncTerminates

\* an async expunge_metrics has returned after it found a lock held that its
\* holder still holds, while nothing but the holder can let a waiting sync
\* call go on
C19_Witness ==
    \E w1 \in Workers, w2 \in Workers :
        /\ wk[w1].pc = "idle"
        /\ wk[w1].op = "expunge"
        /\ ~wk[w1].sync
        /\ wk[w1].result = <<"ok">>
        /\ LastCall(wk[w1])[1] = "acquire"
        /\ LastCall(wk[w1])[3] = "busy"
        /\ lock[get_sack_lock(LastCall(wk[w1])[2])] = w2

\* C20 (states): while a call is in progress, some worker in a call can go
\* on: the workers never all wait for each other's locks.
C20_NoDeadlock ==
    (\E w \in Workers : InCall(w)) => \E w \in Workers : ENABLED Progress(w)

\* C20 (locks): a lock that is held is eventually released by its holder.
C20_LocksReleased ==
    \A n \in LockNames, w \in Workers : (lock[n] = w) ~> (lock[n] # w)

\* C20 (waiting): a sync expunge_metrics that waits for a lock eventually
\* holds it, unless the acquire itself raises, and every call ends.
C20_WaitersServed ==
    /\ \A w \in Workers, n \in LockNames :
          (wk[w].sync /\ Waiting(w) /\ OwnLock(w) = n)
              ~> (lock[n] = w \/ (~InCall(w) /\ wk[w].result = <<"LockError">>))
    /\ \A w \in Workers : InCall(w) ~> ~InCall(w)

====
